---- MODULE Spec2Model ----
(***************************************************************************)
(* Model of terraform-provider-pathfinder: the pathfinder_movement         *)
(* resource (Create / Read / Update / Delete against /v1/movement), the    *)
(* schema validators that guard it, the typed request/response records and *)
(* the client handle the resource is configured with, and the read-only    *)
(* data sources (battery, wifi networks, health, ready, movement lock,     *)
(* device).                                                                *)
(*                                                                         *)
(* Numbers: a distance is held in tenths of a metre (10 is 1.0 m), so that *)
(* values on both sides of the validator's interval [1.0, 100] exist.      *)
(* Optional values are sequences of length 0 or 1: <<>> is "nothing"       *)
(* (a nil client, a removed state, no response), <<x>> is "x".             *)
(***************************************************************************)
EXTENDS Integers, Sequences, FiniteSets, TLC

VARIABLES
    client,     \* MovementResource.client: <<>> (nil) or <<the configured client>>
    tracked,    \* the resource's state held by the host: <<>> or <<state value>>
    device,     \* the plan the device holds: <<>> or <<wire request it accepted>>
    lastOp,     \* the lifecycle call that ran last
    declared,   \* the configuration handed to the last Create / Update: <<>> or <<cfg>>
    sent,       \* the HTTP requests the last call sent, in order
    resp,       \* the answer the last call got from HttpClient.Do: <<>> or <<answer>>
    diags,      \* the error diagnostics the last call returned
    crashed,    \* the last call ended in a Go panic (nil dereference)
    results,    \* the data sources' results held by the host: each <<>> or <<result>>
    calls       \* the data source Reads in progress at the same time, by data source

vars ==
    <<client, tracked, device, lastOp, declared, sent, resp, diags, crashed, results, calls>>

----------------------------------------------------------------------------
(* Bounds of the model and constants of the program *)

\* longest step list enumerated element by element for a first Create
MaxLen == 2

\* longest step list declared over the lifecycle of a resource
MaxLifecycleLen == 1

\* most networks in a wifi answer
MaxNetworks == 2

\* listvalidator.SizeAtMost(50)
MaxSteps == 50

\* float64validator.Between(1.0, 100), in tenths of a metre
MinDistance == 10
MaxDistance == 1000

\* http.StatusNotFound
StatusNotFound == 404

----------------------------------------------------------------------------
(* Framework values: types.String, types.Bool, types.Int64, types.Float64. *)
(* A value is null or carries a Go value; ValueX() of a null is the zero   *)
(* value of the Go type.                                                   *)

StringValue(s) == [null |-> FALSE, v |-> s]
BoolValue(b) == [null |-> FALSE, v |-> b]
BoolNull == [null |-> TRUE, v |-> FALSE]
Int64Value(n) == [null |-> FALSE, v |-> n]
Float64Value(x) == [null |-> FALSE, v |-> x]

\* A float64 that is no finite number (math.NaN): the model's stand-in, outside
\* the distances, for the values without a JSON form.
NaN == -1

\* Go's a < b on float64: false when either side is NaN.
FloatLess(a, b) == a # NaN /\ b # NaN /\ a < b

ValueString(x) == IF x.null THEN "" ELSE x.v
ValueBool(x) == IF x.null THEN FALSE ELSE x.v
ValueInt64(x) == IF x.null THEN 0 ELSE x.v
ValueFloat64(x) == IF x.null THEN 0 ELSE x.v

----------------------------------------------------------------------------
(* The declared configuration, the planned value and the state value are   *)
(* objects keyed by the tfsdk tags of MovementResourceModel:               *)
(*   [name, persist, steps: <<[angle, direction, distance], ...>>]         *)
(* holding framework values.                                               *)

StepValue(a, dir, dist) ==
    [angle |-> Int64Value(a), direction |-> StringValue(dir), distance |-> Float64Value(dist)]

\* Mutant: the block list may be left out.
StepsIsRequired_Optional(steps) == TRUE

\* listvalidator.IsRequired(): the block list must be configured. A list of
\* zero steps blocks reaches the validator as a null list.
StepsIsRequired(steps) == Len(steps) > 0

\* listvalidator.SizeAtMost(50)
StepsSizeAtMost(steps) == Len(steps) <= MaxSteps

\* Mutant: the validator also lets the turns through.
DirectionOneOf_AllowsTurns(d) ==
    d.null \/ ValueString(d) \in {"forward", "backward", "left", "right"}

\* stringvalidator.Any(stringvalidator.OneOf("forward", "backward"))
DirectionOneOf(d) == d.null \/ ValueString(d) \in {"forward", "backward"}

\* float64validator.Between(1.0, 100): an error when value < min || value > max
DistanceBetween(x) ==
    \/ x.null
    \/ ~(FloatLess(ValueFloat64(x), MinDistance) \/ FloatLess(MaxDistance, ValueFloat64(x)))

\* The validators of the schema, run by the host on the declared
\* configuration before any Create or Update: the error diagnostics.
SchemaValidate(cfg) ==
    IF /\ StepsIsRequired(cfg.steps)
       /\ StepsSizeAtMost(cfg.steps)
       /\ \A i \in 1..Len(cfg.steps) :
            /\ DirectionOneOf(cfg.steps[i].direction)
            /\ DistanceBetween(cfg.steps[i].distance)
    THEN {}
    ELSE {"validation"}

\* Mutant: a persist left out stays null in the plan.
PersistDefault_NoDefault(p) == p

\* "persist": Optional, Computed, Default: booldefault.StaticBool(true)
PersistDefault(p) == IF p.null THEN BoolValue(TRUE) ELSE p

\* The planned value the host builds from a configuration.
PlanOf(cfg) == [cfg EXCEPT !.persist = PersistDefault(@)]

\* req.Plan.Get / req.State.Get: the value read into a MovementResourceModel.
ModelGet(val) ==
    [Name |-> val.name,
     Persist |-> val.persist,
     Steps |-> [i \in 1..Len(val.steps) |->
                  [Angle |-> val.steps[i].angle,
                   Direction |-> val.steps[i].direction,
                   Distance |-> val.steps[i].distance]]]

\* resp.State.Set(ctx, &data): the state value written from the model.
StateSet(data) ==
    <<[name |-> data.Name,
       persist |-> data.Persist,
       steps |-> [i \in 1..Len(data.Steps) |->
                    [angle |-> data.Steps[i].Angle,
                     direction |-> data.Steps[i].Direction,
                     distance |-> data.Steps[i].Distance]]]>>

\* resp.State.RemoveResource(ctx)
RemoveResource == <<>>

----------------------------------------------------------------------------
(* Typed request and response records and their JSON forms *)

\* model.MovementStepItem built from one MovementStepsModel
ToMovementStepItem(step) ==
    [Angle |-> ValueInt64(step.Angle),
     Direction |-> ValueString(step.Direction),
     Distance |-> ValueFloat64(step.Distance)]

\* Mutant: the loop fills the request's steps from the far end.
ToMovementRequest_Reversed(data) ==
    [Name |-> ValueString(data.Name),
     Persist |-> ValueBool(data.Persist),
     Steps |-> [i \in 1..Len(data.Steps) |->
                  ToMovementStepItem(data.Steps[Len(data.Steps) + 1 - i])]]

\* model.MovementRequest built from the MovementResourceModel
ToMovementRequest(data) ==
    [Name |-> ValueString(data.Name),
     Persist |-> ValueBool(data.Persist),
     Steps |-> [i \in 1..Len(data.Steps) |-> ToMovementStepItem(data.Steps[i])]]

\* json.Marshal of a MovementRequest: the JSON object keyed by the json tags,
\* or an error when a float64 has no JSON form (NaN, +-Inf).
JsonMarshal(createReq) ==
    IF \A i \in 1..Len(createReq.Steps) : createReq.Steps[i].Distance # NaN
    THEN [err |-> FALSE,
          bytes |-> <<[name |-> createReq.Name,
                       persist |-> createReq.Persist,
                       steps |-> [i \in 1..Len(createReq.Steps) |->
                                    [angle |-> createReq.Steps[i].Angle,
                                     direction |-> createReq.Steps[i].Direction,
                                     distance |-> createReq.Steps[i].Distance]]]>>]
    ELSE [err |-> TRUE, bytes |-> <<>>]

\* A response body: wf says it is one well-formed JSON object; moving says what
\* the object holds under "moving": true, false, nothing ("absent") or a value
\* that is no boolean ("wrongtype").
Body(wf, moving) == [wf |-> wf, moving |-> moving]

\* json.NewDecoder(httpResp.Body).Decode(&readResp) into model.MovementResponse:
\* a body that is no JSON object or holds a non-boolean "moving" is an error; a
\* missing "moving" leaves the zero value.
DecodeMovementResponse(body) ==
    IF ~body.wf \/ body.moving = "wrongtype"
    THEN [err |-> TRUE, Moving |-> FALSE]
    ELSE [err |-> FALSE, Moving |-> (body.moving = "true")]

----------------------------------------------------------------------------
(* The client and the HTTP exchange *)

\* An address url.Parse rejects, so that http.NewRequestWithContext fails.
MalformedAddress == ":80/%zz"

UrlParses(address) == address # MalformedAddress

\* http.NewRequestWithContext(ctx, method, Address + path, body)
NewRequest(c, method, path, body) ==
    [err |-> ~UrlParses(c.Config.Address),
     req |-> [method |-> method, address |-> c.Config.Address, path |-> path, body |-> body]]

\* What a handler leaves behind: the state in its response, the error
\* diagnostics, the requests it sent, and whether it panicked.
Done(state, ds, reqs) == [state |-> state, diags |-> ds, sent |-> reqs, crashed |-> FALSE]

\* A nil dereference: the call returns nothing and the host keeps the prior state.
Panic(prior) == [state |-> prior, diags |-> {}, sent |-> <<>>, crashed |-> TRUE]

----------------------------------------------------------------------------
(* MovementResource handlers. c is r.client (<<>> when nil), r is what      *)
(* r.client.HttpClient.Do returns: [err, status, body].                    *)

\* Configure: nil provider data is ignored, a *clients.Client is stored, anything
\* else is an error.
Configure(c, providerData) ==
    IF providerData = <<>> THEN [client |-> c, diags |-> {}]
    ELSE IF providerData[1].type # "*clients.Client"
         THEN [client |-> c, diags |-> {"configure"}]
         ELSE [client |-> providerData, diags |-> {}]

\* Mutant: the state is saved only when the device reports that it moves.
CreateResponse_CommitsWhenMoving(data, ds, reqs, r) ==
    IF r.err THEN Done(<<>>, ds \cup {"transport"}, reqs)
    ELSE IF r.status = StatusNotFound THEN Done(RemoveResource, ds, reqs)
    ELSE IF DecodeMovementResponse(r.body).err THEN Done(<<>>, ds \cup {"decode"}, reqs)
    ELSE IF DecodeMovementResponse(r.body).Moving THEN Done(StateSet(data), ds, reqs)
    ELSE Done(<<>>, ds, reqs)

\* Mutant: the body is decoded before the 404 is looked for.
CreateResponse_DecodesFirst(data, ds, reqs, r) ==
    IF r.err THEN Done(<<>>, ds \cup {"transport"}, reqs)
    ELSE IF DecodeMovementResponse(r.body).err THEN Done(<<>>, ds \cup {"decode"}, reqs)
    ELSE Done(StateSet(data), ds, reqs)

\* Mutant: the handler returns after decoding, without saving the state.
CreateResponse_SavesNothing(data, ds, reqs, r) ==
    IF r.err THEN Done(<<>>, ds \cup {"transport"}, reqs)
    ELSE IF r.status = StatusNotFound THEN Done(RemoveResource, ds, reqs)
    ELSE IF DecodeMovementResponse(r.body).err THEN Done(<<>>, ds \cup {"decode"}, reqs)
    ELSE Done(<<>>, ds, reqs)

\* Create, from HttpClient.Do on: ds are the diagnostics so far, reqs the request
\* sent. The response state starts empty.
CreateResponse(data, ds, reqs, r) ==
    IF r.err THEN Done(<<>>, ds \cup {"transport"}, reqs)
    ELSE IF r.status = StatusNotFound THEN Done(RemoveResource, ds, reqs)
    ELSE IF DecodeMovementResponse(r.body).err THEN Done(<<>>, ds \cup {"decode"}, reqs)
    ELSE Done(StateSet(data), ds, reqs)

\* Create: data is the MovementResourceModel read from the plan. A marshalling
\* error is recorded and the handler goes on with the empty body.
Create(c, data, r) ==
    LET createReq == ToMovementRequest(data)
        m == JsonMarshal(createReq)
        ds == IF m.err THEN {"encode"} ELSE {}
    IN  IF c = <<>> THEN Panic(<<>>)
        ELSE LET nr == NewRequest(c[1], "POST", "/v1/movement", m.bytes)
             IN  IF nr.err THEN Panic(<<>>)
                 ELSE CreateResponse(data, ds, <<nr.req>>, r)

\* Mutant: the body is decoded before the status is looked at.
ReadResponse_DecodesFirst(prior, data, reqs, r) ==
    IF r.err THEN Done(prior, {"transport"}, reqs)
    ELSE IF DecodeMovementResponse(r.body).err THEN Done(prior, {"decode"}, reqs)
    ELSE IF r.status = StatusNotFound THEN Done(RemoveResource, {}, reqs)
    ELSE Done(StateSet(data), {}, reqs)

\* Mutant: the decoded moving flag is written into the model before it is saved.
ReadResponse_StoresMoving(prior, data, reqs, r) ==
    IF r.err THEN Done(prior, {"transport"}, reqs)
    ELSE IF r.status = StatusNotFound THEN Done(RemoveResource, {}, reqs)
    ELSE IF DecodeMovementResponse(r.body).err THEN Done(prior, {"decode"}, reqs)
    ELSE Done(StateSet([data EXCEPT !.Persist = BoolValue(DecodeMovementResponse(r.body).Moving)]),
              {}, reqs)

\* Read, from HttpClient.Do on: prior is the tracked state, which the response
\* state starts as, and data the MovementResourceModel read from it.
ReadResponse(prior, data, reqs, r) ==
    IF r.err THEN Done(prior, {"transport"}, reqs)
    ELSE IF r.status = StatusNotFound THEN Done(RemoveResource, {}, reqs)
    ELSE IF DecodeMovementResponse(r.body).err THEN Done(prior, {"decode"}, reqs)
    ELSE Done(StateSet(data), {}, reqs)

Read(c, prior, r) ==
    LET data == ModelGet(prior[1])
    IN  IF c = <<>> THEN Panic(prior)
        ELSE LET nr == NewRequest(c[1], "GET", "/v1/movement", <<>>)
             IN  IF nr.err THEN Panic(prior)
                 ELSE ReadResponse(prior, data, <<nr.req>>, r)

\* Mutant: the new plan is posted to the device before it is saved.
Update_PostsPlan(data) ==
    Done(StateSet(data), {},
         <<[method |-> "POST", address |-> "", path |-> "/v1/movement",
            body |-> JsonMarshal(ToMovementRequest(data)).bytes]>>)

\* Update: data is the MovementResourceModel read from the plan. No request is
\* built and the client is not used.
Update(data) == Done(StateSet(data), {}, <<>>)

\* Mutant: a 404 is handled like any other status.
DeleteResponse_NotFoundDecoded(prior, reqs, r) ==
    IF r.err THEN Done(prior, {"transport"}, reqs)
    ELSE IF DecodeMovementResponse(r.body).err THEN Done(prior, {"decode"}, reqs)
    ELSE Done(prior, {}, reqs)

\* Mutant: a status that is neither 404 nor 2xx is reported as an error.
DeleteResponse_ChecksStatus(prior, reqs, r) ==
    IF r.err THEN Done(prior, {"transport"}, reqs)
    ELSE IF r.status = StatusNotFound THEN Done(RemoveResource, {}, reqs)
    ELSE IF r.status < 200 \/ r.status >= 300 THEN Done(prior, {"status"}, reqs)
    ELSE IF DecodeMovementResponse(r.body).err THEN Done(prior, {"decode"}, reqs)
    ELSE Done(prior, {}, reqs)

\* Mutant: every answer is reported as an error and the state is kept.
DeleteResponse_AlwaysFails(prior, reqs, r) == Done(prior, {"transport"}, reqs)

\* Delete, from HttpClient.Do on: prior is the tracked state, which the response
\* state starts as.
DeleteResponse(prior, reqs, r) ==
    IF r.err THEN Done(prior, {"transport"}, reqs)
    ELSE IF r.status = StatusNotFound THEN Done(RemoveResource, {}, reqs)
    ELSE IF DecodeMovementResponse(r.body).err THEN Done(prior, {"decode"}, reqs)
    ELSE Done(prior, {}, reqs)

Delete(c, prior, r) ==
    IF c = <<>> THEN Panic(prior)
    ELSE LET nr == NewRequest(c[1], "DELETE", "/v1/movement", <<>>)
         IN  IF nr.err THEN Panic(prior)
             ELSE DeleteResponse(prior, <<nr.req>>, r)

\* The host drops the state after a Delete that returned no error diagnostic
\* and did not panic; otherwise it keeps what the response holds.
StateAfterDelete(out) ==
    IF out.diags = {} /\ ~out.crashed THEN <<>> ELSE out.state

----------------------------------------------------------------------------
(* The device: it installs the body of a POST it answers with a 2xx status. *)

IsSuccess(status) == status >= 200 /\ status < 300

DeviceAfter(dev, reqs, answer) ==
    IF /\ reqs # <<>>
       /\ answer # <<>>
       /\ reqs[1].method = "POST"
       /\ ~answer[1].err
       /\ IsSuccess(answer[1].status)
    THEN reqs[1].body
    ELSE dev

----------------------------------------------------------------------------
(* The data sources: battery, wifi networks, health, ready, movement lock   *)
(* and device. Each Read sends one GET and stores what it decodes. Their    *)
(* Configure is the code of MovementResource.Configure, and all of them are *)
(* handed the provider's one client.                                        *)

StringNull == [null |-> TRUE, v |-> ""]
Int64Null == [null |-> TRUE, v |-> 0]
Float64Null == [null |-> TRUE, v |-> 0]

\* types.Map that is null: the value of a Computed map attribute in the config
MapNull == [null |-> TRUE, v |-> {}]

\* the value of a JSON member that may be missing: the Go zero value when it is
OrZero(member, zero) == IF member = <<>> THEN zero ELSE member[1]

\* A JSON object of at most one member, as the bodies of the health, ready and
\* movement lock endpoints are: wf says it is one well-formed JSON object, key
\* names its member ("" when it has none) and val is what the member holds:
\* "true", "false", or a value that is no boolean ("wrongtype").
JsonMember(wf, key, val) == [wf |-> wf, key |-> key, val |-> val]

\* Decode into a struct of one bool field tagged key: members of other names
\* are ignored, a missing member leaves false, a non-boolean member is an error.
DecodeFlag(body, key) ==
    IF ~body.wf \/ (body.key = key /\ body.val = "wrongtype")
    THEN [err |-> TRUE, v |-> FALSE]
    ELSE [err |-> FALSE, v |-> (body.key = key /\ body.val = "true")]

\* Decode into model.HealthzResponse
DecodeHealthzResponse(body) ==
    [err |-> DecodeFlag(body, "healthy").err, v |-> [Healthy |-> DecodeFlag(body, "healthy").v]]

\* Decode into model.ReadyzResponse
DecodeReadyzResponse(body) ==
    [err |-> DecodeFlag(body, "ready").err, v |-> [Ready |-> DecodeFlag(body, "ready").v]]

\* Decode into model.MovementLockResponse
DecodeMovementLockResponse(body) ==
    [err |-> DecodeFlag(body, "locked").err, v |-> [Locked |-> DecodeFlag(body, "locked").v]]

\* Decode into model.BatteryResponse. A battery body is [wf, value, unit]: wf
\* says it is a well-formed JSON object whose members have the types of the
\* struct, value and unit are the members, <<>> when missing.
DecodeBatteryResponse(body) ==
    IF ~body.wf THEN [err |-> TRUE, v |-> [Unit |-> "", Value |-> 0]]
    ELSE [err |-> FALSE,
          v |-> [Unit |-> OrZero(body.unit, ""), Value |-> OrZero(body.value, 0)]]

\* Decode into []model.WifiNetworkItem. A wifi body is [wf, items]: wf says it
\* is a well-formed JSON array of objects of the item's types.
DecodeWifiNetworks(body) ==
    IF ~body.wf THEN [err |-> TRUE, v |-> <<>>]
    ELSE [err |-> FALSE,
          v |-> [i \in 1..Len(body.items) |->
                   [Encrypted |-> OrZero(body.items[i].encrypted, FALSE),
                    Rssi |-> OrZero(body.items[i].rssi, 0),
                    Ssid |-> OrZero(body.items[i].ssid, "")]]]

\* Decode into model.DeviceResponse. A device body is [wf, name, uptime,
\* identifiers, versions, features]; a missing identifiers or versions object
\* leaves the nil pointer.
DecodeDeviceResponse(body) ==
    IF ~body.wf
    THEN [err |-> TRUE,
          v |-> [Features |-> {}, Identifiers |-> <<>>, Name |-> "", Uptime |-> 0,
                 Versions |-> <<>>]]
    ELSE [err |-> FALSE,
          v |-> [Features |-> OrZero(body.features, {}),
                 Identifiers |-> body.identifiers,
                 Name |-> OrZero(body.name, ""),
                 Uptime |-> OrZero(body.uptime, 0),
                 Versions |-> body.versions]]

\* req.Config.Get(ctx, &data): the attributes of a data source are all Computed,
\* so the configuration holds null for each.
HealthConfig == [healthy |-> BoolNull]
ReadyConfig == [ready |-> BoolNull]
MovementLockConfig == [locked |-> BoolNull]
BatteryConfig == [value |-> Int64Null, unit |-> StringNull]
WifiNetworksConfig == [networks |-> <<>>]
DeviceConfig ==
    [name |-> StringNull, uptime |-> Float64Null, identifiers |-> <<>>, versions |-> <<>>,
     features |-> MapNull]

\* data.Healthy = types.BoolValue(readResp.Healthy)
HealthData(readResp) == [healthy |-> BoolValue(readResp.Healthy)]

\* data.Ready = types.BoolValue(readResp.Ready)
ReadyData(readResp) == [ready |-> BoolValue(readResp.Ready)]

\* data.Locked = types.BoolValue(readResp.Locked)
MovementLockData(readResp) == [locked |-> BoolValue(readResp.Locked)]

\* data.Unit = types.StringValue(readResp.Unit); data.Value = types.Int64Value(readResp.Value)
BatteryData(readResp) ==
    [value |-> Int64Value(readResp.Value), unit |-> StringValue(readResp.Unit)]

\* Mutant: the loop fills networks from the far end of the response.
WifiNetworksData_Reversed(readResp) ==
    [networks |-> [i \in 1..Len(readResp) |->
                     [encrypted |-> BoolValue(readResp[Len(readResp) + 1 - i].Encrypted),
                      rssi |-> Float64Value(readResp[Len(readResp) + 1 - i].Rssi),
                      ssid |-> StringValue(readResp[Len(readResp) + 1 - i].Ssid)]]]

\* the loop over readResp that fills networks, item by item
WifiNetworksData(readResp) ==
    [networks |-> [i \in 1..Len(readResp) |->
                     [encrypted |-> BoolValue(readResp[i].Encrypted),
                      rssi |-> Float64Value(readResp[i].Rssi),
                      ssid |-> StringValue(readResp[i].Ssid)]]]

expandDeviceResponseIdentifiersModel(ptr) ==
    IF ptr = <<>> THEN <<>>
    ELSE <<[long |-> StringValue(ptr[1].Long), short |-> StringValue(ptr[1].Short)]>>

expandDeviceResponseVersionsModel(ptr) ==
    IF ptr = <<>> THEN <<>>
    ELSE <<[api |-> StringValue(ptr[1].Api), app |-> StringValue(ptr[1].App)]>>

\* Mutant: the TODO is done, Features is filled from the response.
DeviceData_CopiesFeatures(readResp) ==
    [name |-> StringValue(readResp.Name),
     uptime |-> Float64Value(readResp.Uptime),
     identifiers |-> expandDeviceResponseIdentifiersModel(readResp.Identifiers),
     versions |-> expandDeviceResponseVersionsModel(readResp.Versions),
     features |-> [null |-> FALSE, v |-> readResp.Features]]

\* Name, Uptime, Identifiers and Versions are set from the response; Features
\* stays what Config.Get read.
DeviceData(readResp) ==
    [name |-> StringValue(readResp.Name),
     uptime |-> Float64Value(readResp.Uptime),
     identifiers |-> expandDeviceResponseIdentifiersModel(readResp.Identifiers),
     versions |-> expandDeviceResponseVersionsModel(readResp.Versions),
     features |-> DeviceConfig.features]

\* Mutant: the body is decoded before the 404 is looked for.
DataSourceResponse_DecodesFirst(held, decoded, data, reqs, r) ==
    IF r.err THEN Done(held, {"transport"}, reqs)
    ELSE IF decoded.err THEN Done(held, {"decode"}, reqs)
    ELSE IF r.status = StatusNotFound THEN Done(RemoveResource, {}, reqs)
    ELSE Done(<<data>>, {}, reqs)

\* Mutant: a transport failure is followed by a second attempt.
DataSourceResponse_RetriesOnce(held, decoded, data, reqs, r) ==
    IF r.err THEN Done(held, {"transport"}, reqs \o reqs)
    ELSE IF r.status = StatusNotFound THEN Done(RemoveResource, {}, reqs)
    ELSE IF decoded.err THEN Done(held, {"decode"}, reqs)
    ELSE Done(<<data>>, {}, reqs)

\* Read of a data source, from HttpClient.Do on: held is what the response
\* state holds when Read starts, decoded the outcome of decoding the body and
\* data the model filled from it.
DataSourceResponse(held, decoded, data, reqs, r) ==
    IF r.err THEN Done(held, {"transport"}, reqs)
    ELSE IF r.status = StatusNotFound THEN Done(RemoveResource, {}, reqs)
    ELSE IF decoded.err THEN Done(held, {"decode"}, reqs)
    ELSE Done(<<data>>, {}, reqs)

\* Read of a data source up to HttpClient.Do: the GET is built from the client's
\* address; a nil client or a request that cannot be built is a nil dereference.
DataSourceRead(c, path, held, decoded, data, r) ==
    IF c = <<>> THEN Panic(held)
    ELSE LET nr == NewRequest(c[1], "GET", path, <<>>)
         IN  IF nr.err THEN Panic(held)
             ELSE DataSourceResponse(held, decoded, data, <<nr.req>>, r)

HealthRead(c, r) ==
    DataSourceRead(c, "/v1/healthz", <<HealthConfig>>, DecodeHealthzResponse(r.body),
                   HealthData(DecodeHealthzResponse(r.body).v), r)

ReadyRead(c, r) ==
    DataSourceRead(c, "/v1/readyz", <<ReadyConfig>>, DecodeReadyzResponse(r.body),
                   ReadyData(DecodeReadyzResponse(r.body).v), r)

MovementLockRead(c, r) ==
    DataSourceRead(c, "/v1/movement/lock", <<MovementLockConfig>>,
                   DecodeMovementLockResponse(r.body),
                   MovementLockData(DecodeMovementLockResponse(r.body).v), r)

BatteryRead(c, r) ==
    DataSourceRead(c, "/v1/device/battery", <<BatteryConfig>>, DecodeBatteryResponse(r.body),
                   BatteryData(DecodeBatteryResponse(r.body).v), r)

WifiNetworksRead(c, r) ==
    DataSourceRead(c, "/v1/device/wifi", <<WifiNetworksConfig>>, DecodeWifiNetworks(r.body),
                   WifiNetworksData(DecodeWifiNetworks(r.body).v), r)

DeviceRead(c, r) ==
    DataSourceRead(c, "/v1/device/status", <<DeviceConfig>>, DecodeDeviceResponse(r.body),
                   DeviceData(DecodeDeviceResponse(r.body).v), r)

\* the model a data source fills from the body of its answer, the outcome of
\* decoding that body, what Config.Get read, and the path of its endpoint
DecodedOf(k, body) ==
    CASE k = "health" -> DecodeHealthzResponse(body)
      [] k = "ready" -> DecodeReadyzResponse(body)
      [] k = "movement_lock" -> DecodeMovementLockResponse(body)
      [] k = "battery" -> DecodeBatteryResponse(body)
      [] k = "wifi_networks" -> DecodeWifiNetworks(body)
      [] k = "device" -> DecodeDeviceResponse(body)

DataOf(k, body) ==
    CASE k = "health" -> HealthData(DecodedOf(k, body).v)
      [] k = "ready" -> ReadyData(DecodedOf(k, body).v)
      [] k = "movement_lock" -> MovementLockData(DecodedOf(k, body).v)
      [] k = "battery" -> BatteryData(DecodedOf(k, body).v)
      [] k = "wifi_networks" -> WifiNetworksData(DecodedOf(k, body).v)
      [] k = "device" -> DeviceData(DecodedOf(k, body).v)

ConfigOf(k) ==
    CASE k = "health" -> HealthConfig
      [] k = "ready" -> ReadyConfig
      [] k = "movement_lock" -> MovementLockConfig
      [] k = "battery" -> BatteryConfig
      [] k = "wifi_networks" -> WifiNetworksConfig
      [] k = "device" -> DeviceConfig

PathOf(k) ==
    CASE k = "health" -> "/v1/healthz"
      [] k = "ready" -> "/v1/readyz"
      [] k = "movement_lock" -> "/v1/movement/lock"
      [] k = "battery" -> "/v1/device/battery"
      [] k = "wifi_networks" -> "/v1/device/wifi"
      [] k = "device" -> "/v1/device/status"

\* Read of data source k run on its own with the client c and the answer r
ReadOf(k, c, r) ==
    DataSourceRead(c, PathOf(k), <<ConfigOf(k)>>, DecodedOf(k, r.body), DataOf(k, r.body), r)

\* The host keeps the result it tracked when a Read returns an error diagnostic
\* or panics, and takes the response's state otherwise.
StateAfterRead(prior, out) ==
    IF out.diags # {} \/ out.crashed THEN prior ELSE out.state

----------------------------------------------------------------------------
(* Inputs *)

Names == {"example", "other"}

PersistValues == {BoolNull, BoolValue(TRUE), BoolValue(FALSE)}

\* over the lifecycle persist is left out of the configuration
LifecyclePersistValues == {BoolNull}

Forward1 == StepValue(0, "forward", 10)
Backward100 == StepValue(90, "backward", 1000)
Right1 == StepValue(90, "right", 10)
TooShort == StepValue(0, "forward", 5)
TooFar == StepValue(90, "backward", 1001)

\* a step whose distance is no number: it passes Between and cannot be encoded
NotANumber == StepValue(0, "forward", NaN)

StepSet == {Forward1, Backward100, Right1, TooShort, TooFar}

SeqsUpTo(S, n) == UNION {[1..k -> S] : k \in 0..n}

Repeat(x, n) == [i \in 1..n |-> x]

\* the steps of the pathfinder_movement example of the README and of
\* examples/provider/terraform.tf
ReadmeSteps == <<StepValue(0, "forward", 10), StepValue(90, "right", 10), StepValue(90, "right", 10)>>

\* every list of at most MaxLen steps, lists at the size limit and past it, and
\* the documented example
StepLists ==
    SeqsUpTo(StepSet, MaxLen)
        \cup {Repeat(Forward1, MaxSteps), Repeat(Forward1, MaxSteps + 1), ReadmeSteps}

\* the configurations declared for a first Create
Configs ==
    {[name |-> StringValue(n), persist |-> p, steps |-> s] :
        n \in Names, p \in PersistValues, s \in StepLists}

\* the configurations declared over the lifecycle of a resource
LifecycleConfigs ==
    {[name |-> StringValue(n), persist |-> p, steps |-> s] :
        n \in Names,
        p \in LifecyclePersistValues,
        s \in SeqsUpTo({Forward1, Backward100, Right1}, MaxLifecycleLen)}

\* the configurations declared for a Create of values given directly to the
\* handler's float64 fields
EncodeConfigs ==
    {[name |-> StringValue(n), persist |-> p, steps |-> s] :
        n \in Names, p \in PersistValues, s \in SeqsUpTo({Forward1, NotANumber}, MaxLen)}

Bodies ==
    {Body(FALSE, "absent")}
        \cup {Body(TRUE, m) : m \in {"true", "false", "absent", "wrongtype"}}

Statuses == {200, 201, 404, 500}

TransportError == [err |-> TRUE, status |-> 0, body |-> Body(FALSE, "absent")]

AnswersWith(statuses) ==
    {TransportError} \cup {[err |-> FALSE, status |-> s, body |-> b] : s \in statuses, b \in Bodies}

\* what HttpClient.Do may return for a first Create
Responses == AnswersWith(Statuses)

\* what HttpClient.Do may return over the lifecycle of a resource
LifecycleResponses == AnswersWith({200, 404, 500})

ProviderDatas ==
    {<<>>}
        \cup {<<[type |-> "*clients.Client", Config |-> [Address |-> a]]>> :
                a \in {"http://192.168.4.1:80", MalformedAddress}}
        \cup {<<[type |-> "string", Config |-> [Address |-> ""]]>>}

\* the data sources of the provider, by type name
DataSources == {"health", "ready", "movement_lock", "battery", "wifi_networks", "device"}

\* a body that is no JSON at all
NotJson == JsonMember(FALSE, "", "")

\* the body {}
EmptyObject == JsonMember(TRUE, "", "")

\* the device's error body, {"message": ..., "status": ...}: an object without
\* any member of the expected record
ErrorBody == JsonMember(TRUE, "message", "wrongtype")

\* the bodies a one-flag endpoint answers with
FlagBodies(key) ==
    {NotJson, EmptyObject, ErrorBody}
        \cup {JsonMember(TRUE, key, val) : val \in {"true", "false", "wrongtype"}}

BatteryBody(wf, value, unit) == [wf |-> wf, value |-> value, unit |-> unit]

BatteryBodies ==
    {BatteryBody(FALSE, <<>>, <<>>),
     BatteryBody(TRUE, <<>>, <<>>),
     BatteryBody(TRUE, <<87>>, <<"%">>),
     BatteryBody(TRUE, <<12>>, <<>>)}

WifiItem(ssid, rssi, encrypted) == [ssid |-> ssid, rssi |-> rssi, encrypted |-> encrypted]

Home == WifiItem(<<"home">>, <<0 - 40>>, <<TRUE>>)
Guest == WifiItem(<<"guest">>, <<0 - 70>>, <<FALSE>>)
Hidden == WifiItem(<<>>, <<0 - 90>>, <<>>)

WifiBody(wf, items) == [wf |-> wf, items |-> items]

\* the arrays of at most MaxNetworks items, and a body that is no array
WifiBodies ==
    {WifiBody(FALSE, <<>>)}
        \cup {WifiBody(TRUE, items) : items \in SeqsUpTo({Home, Guest, Hidden}, MaxNetworks)}

DeviceBody(wf, name, uptime, identifiers, versions, features) ==
    [wf |-> wf, name |-> name, uptime |-> uptime, identifiers |-> identifiers,
     versions |-> versions, features |-> features]

DeviceBodies ==
    {DeviceBody(FALSE, <<>>, <<>>, <<>>, <<>>, <<>>),
     DeviceBody(TRUE, <<>>, <<>>, <<>>, <<>>, <<>>),
     DeviceBody(TRUE, <<"pathfinder">>, <<3600>>,
                <<[Long |-> "pathfinder-0123456789ab", Short |-> "89ab"]>>,
                <<[Api |-> "v1", App |-> "1.2.0"]>>,
                <<{<<"camera", TRUE>>}>>),
     DeviceBody(TRUE, <<"rover">>, <<>>, <<>>, <<[Api |-> "v1", App |-> ""]>>, <<>>)}

\* what HttpClient.Do may return to a data source whose bodies are bodies
ProbeAnswers(bodies) ==
    {TransportError}
        \cup {[err |-> FALSE, status |-> s, body |-> b] : s \in {200, 404, 500}, b \in bodies}

\* the data sources read at the same time
ConcurrentProbes == {"battery", "wifi_networks"}

\* the bodies the endpoint of data source k answers with
BodiesOf(k) ==
    CASE k = "health" -> FlagBodies("healthy")
      [] k = "ready" -> FlagBodies("ready")
      [] k = "movement_lock" -> FlagBodies("locked")
      [] k = "battery" -> BatteryBodies
      [] k = "wifi_networks" -> WifiBodies
      [] k = "device" -> DeviceBodies

\* a Read that has not started: pc is where the handler stands, sent the request
\* it built, resp what HttpClient.Do returned to it, diags and crashed how it ended
IdleCall == [pc |-> "idle", sent |-> <<>>, resp |-> <<>>, diags |-> {}, crashed |-> FALSE]

----------------------------------------------------------------------------
(* The state machine: the host's calls on one pathfinder_movement resource *)

Init ==
    /\ client = <<>>
    /\ tracked = <<>>
    /\ device = <<>>
    /\ lastOp = "none"
    /\ declared = <<>>
    /\ sent = <<>>
    /\ resp = <<>>
    /\ diags = {}
    /\ crashed = FALSE
    /\ results = [k \in DataSources |-> <<>>]
    /\ calls = [k \in ConcurrentProbes |-> IdleCall]

\* The handler's outcome becomes the observable result of the call.
Finish(op, cfg, out, r, newTracked) ==
    /\ lastOp' = op
    /\ declared' = cfg
    /\ sent' = out.sent
    /\ resp' = IF out.sent = <<>> THEN <<>> ELSE <<r>>
    /\ diags' = out.diags
    /\ crashed' = out.crashed
    /\ tracked' = newTracked
    /\ device' = DeviceAfter(device, out.sent, IF out.sent = <<>> THEN <<>> ELSE <<r>>)
    /\ UNCHANGED <<results, calls>>

\* The host configures the resource until it holds a client.
HostConfigure ==
    /\ client = <<>>
    /\ \E pd \in ProviderDatas :
        LET out == Configure(client, pd)
        IN  /\ client' = out.client
            /\ lastOp' = "configure"
            /\ diags' = out.diags
            /\ declared' = <<>>
            /\ sent' = <<>>
            /\ resp' = <<>>
            /\ crashed' = FALSE
            /\ UNCHANGED <<tracked, device, results, calls>>

\* The host creates a resource it does not track: it validates the declared
\* configuration, plans it and calls Create.
CreateFrom(cfgs, answers) ==
    /\ tracked = <<>>
    /\ UNCHANGED client
    /\ \E cfg \in cfgs :
        LET v == SchemaValidate(cfg)
        IN  IF v # {}
            THEN LET out == Done(<<>>, v, <<>>)
                 IN  Finish("create", <<cfg>>, out, TransportError, out.state)
            ELSE \E r \in answers :
                    LET out == Create(client, ModelGet(PlanOf(cfg)), r)
                    IN  Finish("create", <<cfg>>, out, r, out.state)

HostCreate == CreateFrom(LifecycleConfigs, LifecycleResponses)

\* The first Create of a resource, over the larger set of configurations.
FirstCreate ==
    /\ lastOp \in {"none", "configure"}
    /\ CreateFrom(Configs, Responses)

\* The host refreshes a resource it tracks.
HostRead ==
    /\ tracked # <<>>
    /\ \E r \in LifecycleResponses :
        LET out == Read(client, tracked, r)
        IN  /\ Finish("read", <<>>, out, r, out.state)
            /\ UNCHANGED client

\* The host changes a resource it tracks to a newly declared configuration.
HostUpdate ==
    /\ tracked # <<>>
    /\ \E cfg \in LifecycleConfigs :
        LET v == SchemaValidate(cfg)
            out == IF v # {} THEN Done(tracked, v, <<>>)
                   ELSE Update(ModelGet(PlanOf(cfg)))
        IN  /\ Finish("update", <<cfg>>, out, TransportError, out.state)
            /\ UNCHANGED client

\* The host destroys a resource it tracks.
HostDelete ==
    /\ tracked # <<>>
    /\ \E r \in LifecycleResponses :
        LET out == Delete(client, tracked, r)
        IN  /\ Finish("delete", <<>>, out, r, StateAfterDelete(out))
            /\ UNCHANGED client

Next == HostConfigure \/ HostCreate \/ HostRead \/ HostUpdate \/ HostDelete

Spec == Init /\ [][Next]_vars

\* A resource is configured and created once.
NextCreate == HostConfigure \/ FirstCreate

SpecCreate == Init /\ [][NextCreate]_vars

\* Create is called again and again while nothing is tracked.
NextCreates == HostConfigure \/ HostCreate

SpecCreates == Init /\ [][NextCreates]_vars

\* A Delete the device answers with 404, or with a 2xx status and a body a
\* movement-status record can be read from.
DeleteAnsweredWell ==
    /\ HostDelete
    /\ resp' # <<>>
    /\ ~resp'[1].err
    /\ \/ resp'[1].status = StatusNotFound
       \/ (IsSuccess(resp'[1].status) /\ ~DecodeMovementResponse(resp'[1].body).err)

\* A resource is created and deleted; the host calls Delete again as long as
\* the resource is tracked, and the device does not answer badly for ever.
NextRetry == HostConfigure \/ HostCreate \/ HostDelete

FairRetry == WF_vars(HostDelete) /\ SF_vars(DeleteAnsweredWell)

SpecRetry == Init /\ [][NextRetry]_vars /\ FairRetry

\* The first Create of a resource whose distances need not be finite numbers.
EncodeCreate ==
    /\ lastOp \in {"none", "configure"}
    /\ CreateFrom(EncodeConfigs, Responses)

NextEncode == HostConfigure \/ EncodeCreate

SpecEncode == Init /\ [][NextEncode]_vars

----------------------------------------------------------------------------
(* The state machine: the host's reads of the data sources *)

\* Only the data source being read holds a tracked result.
OneDataSource(k) == \A j \in DataSources \ {k} : results[j] = <<>>

\* The host reads data source k and keeps what StateAfterRead says.
ProbeRead(k, out, r) ==
    /\ OneDataSource(k)
    /\ lastOp' = k
    /\ declared' = <<>>
    /\ sent' = out.sent
    /\ resp' = IF out.sent = <<>> THEN <<>> ELSE <<r>>
    /\ diags' = out.diags
    /\ crashed' = out.crashed
    /\ results' = [results EXCEPT ![k] = StateAfterRead(@, out)]
    /\ UNCHANGED <<client, tracked, device, calls>>

HostReadHealth ==
    \E r \in ProbeAnswers(FlagBodies("healthy")) : ProbeRead("health", HealthRead(client, r), r)

HostReadReady ==
    \E r \in ProbeAnswers(FlagBodies("ready")) : ProbeRead("ready", ReadyRead(client, r), r)

HostReadMovementLock ==
    \E r \in ProbeAnswers(FlagBodies("locked")) :
        ProbeRead("movement_lock", MovementLockRead(client, r), r)

HostReadBattery ==
    \E r \in ProbeAnswers(BatteryBodies) : ProbeRead("battery", BatteryRead(client, r), r)

HostReadWifiNetworks ==
    \E r \in ProbeAnswers(WifiBodies) : ProbeRead("wifi_networks", WifiNetworksRead(client, r), r)

HostReadDevice ==
    \E r \in ProbeAnswers(DeviceBodies) : ProbeRead("device", DeviceRead(client, r), r)

NextProbe ==
    \/ HostConfigure
    \/ HostReadHealth
    \/ HostReadReady
    \/ HostReadMovementLock
    \/ HostReadBattery
    \/ HostReadWifiNetworks
    \/ HostReadDevice

SpecProbe == Init /\ [][NextProbe]_vars

----------------------------------------------------------------------------
(* The state machine: two data sources read at the same time. A Read runs   *)
(* in three steps: it builds its request from the client, HttpClient.Do     *)
(* returns, and it handles the answer and returns to the host. The steps of *)
(* the two Reads interleave; a panic ends the provider process.             *)

\* The provider is configured before any Read starts.
ConfigureFirst ==
    /\ \A k \in ConcurrentProbes : calls[k].pc = "idle"
    /\ HostConfigure

\* Mutant: the handlers keep the response in one shared place, so a handler
\* sees the status of the answer that came in last.
AnswerSeen_SharedStatus(cs, k) ==
    LET o == CHOOSE j \in ConcurrentProbes : j # k
    IN  IF cs[o].resp # <<>>
        THEN [cs[k].resp[1] EXCEPT !.err = cs[o].resp[1].err, !.status = cs[o].resp[1].status]
        ELSE cs[k].resp[1]

\* httpResp, err of the handler of k: locals of its own call
AnswerSeen(cs, k) == cs[k].resp[1]

\* Read of k up to HttpClient.Do: the request is built from the client.
CallBegin(k) ==
    /\ calls[k].pc = "idle"
    /\ ~crashed
    /\ IF client = <<>> \/ NewRequest(client[1], "GET", PathOf(k), <<>>).err
       THEN /\ calls' = [calls EXCEPT ![k] = [IdleCall EXCEPT !.pc = "done", !.crashed = TRUE]]
            /\ crashed' = TRUE
       ELSE /\ calls' = [calls EXCEPT ![k] =
                            [IdleCall EXCEPT !.pc = "requesting",
                                             !.sent = <<NewRequest(client[1], "GET", PathOf(k), <<>>).req>>]]
            /\ UNCHANGED crashed
    /\ UNCHANGED <<client, tracked, device, lastOp, declared, sent, resp, diags, results>>

\* HttpClient.Do of the Read of k returns.
CallAnswer(k) ==
    /\ calls[k].pc = "requesting"
    /\ ~crashed
    /\ \E r \in ProbeAnswers(BodiesOf(k)) :
        calls' = [calls EXCEPT ![k].pc = "answered", ![k].resp = <<r>>]
    /\ UNCHANGED <<client, tracked, device, lastOp, declared, sent, resp, diags, crashed, results>>

\* The Read of k handles its answer and returns; the host keeps what
\* StateAfterRead says.
CallReturn(k) ==
    /\ calls[k].pc = "answered"
    /\ ~crashed
    /\ LET r == AnswerSeen(calls, k)
           out == DataSourceResponse(<<ConfigOf(k)>>, DecodedOf(k, r.body), DataOf(k, r.body),
                                     calls[k].sent, r)
       IN  /\ calls' = [calls EXCEPT ![k].pc = "done", ![k].diags = out.diags]
           /\ results' = [results EXCEPT ![k] = StateAfterRead(@, out)]
    /\ UNCHANGED <<client, tracked, device, lastOp, declared, sent, resp, diags, crashed>>

BatteryStep == CallBegin("battery") \/ CallAnswer("battery") \/ CallReturn("battery")

WifiNetworksStep ==
    CallBegin("wifi_networks") \/ CallAnswer("wifi_networks") \/ CallReturn("wifi_networks")

NextConcurrent == ConfigureFirst \/ BatteryStep \/ WifiNetworksStep

SpecConcurrent == Init /\ [][NextConcurrent]_vars

----------------------------------------------------------------------------
(* The state machine: one object of the provider *)

\* The host works on one object of the provider, the movement resource or a
\* data source: the calls of Next while no data source was read, the calls of
\* NextProbe while no resource was created.
OnResource == lastOp \notin DataSources /\ \A k \in DataSources : results[k] = <<>>

OnDataSource == lastOp \in {"none", "configure"} \cup DataSources /\ tracked = <<>>

NextObject == (OnResource /\ Next) \/ (OnDataSource /\ NextProbe)

SpecObject == Init /\ [][NextObject]_vars

----------------------------------------------------------------------------
(* Properties *)

\* the last call was op and HttpClient.Do returned a response
Answered(op) == lastOp = op /\ resp # <<>> /\ ~resp[1].err

\* the body is a JSON object a movement-status record can be read from
DecodesAsMovementStatus(b) == b.wf /\ b.moving # "wrongtype"

\* the declared values of a configuration, persist being true when left out
DeclaredPersist(cfg) == IF cfg.persist.null THEN TRUE ELSE cfg.persist.v

DeclaredValue(cfg) ==
    [name |-> cfg.name, persist |-> BoolValue(DeclaredPersist(cfg)), steps |-> cfg.steps]

\* C1: a Create whose POST is answered with a success status and a body that
\* decodes as a movement-status record returns no error diagnostic and tracks
\* exactly the declared name, persist and steps, whatever the moving flag is.
C1_CreateSuccessTracksDeclared ==
    (/\ Answered("create")
     /\ IsSuccess(resp[1].status)
     /\ DecodesAsMovementStatus(resp[1].body))
        => (diags = {} /\ tracked = <<DeclaredValue(declared[1])>>)

\* C1 witness: the scenario of the specification, 201 {"moving":true} for
\* {name "example", persist true, one step forward}.
C1_Witness ==
    /\ Answered("create")
    /\ resp[1].status = 201
    /\ resp[1].body = Body(TRUE, "true")
    /\ declared = <<[name |-> StringValue("example"),
                     persist |-> BoolValue(TRUE),
                     steps |-> <<Forward1>>]>>
    /\ tracked = declared
    /\ diags = {}

\* the configurations C2 is about
C2_Rejected(cfg) ==
    \/ Len(cfg.steps) > 50
    \/ \E i \in 1..Len(cfg.steps) :
        \/ cfg.steps[i].distance.v < 10
        \/ cfg.steps[i].distance.v > 1000
        \/ cfg.steps[i].direction.v \notin {"forward", "backward"}

ReadmeConfig == [name |-> StringValue("example"), persist |-> BoolNull, steps |-> ReadmeSteps]

\* C3: the documented configuration (forward, then right twice) is accepted and
\* Create sends it to the device.
C3_ReadmePlanIsSent ==
    (lastOp = "create" /\ declared = <<ReadmeConfig>> /\ client # <<>> /\ ~crashed)
        => (/\ "validation" \notin diags
            /\ Len(sent) = 1
            /\ sent[1].method = "POST"
            /\ Len(sent[1].body) = 1
            /\ Len(sent[1].body[1].steps) = 3)

\* C4: the body of Create's POST carries name and persist unchanged and as many
\* steps as declared, the i-th item holding the angle, direction and distance
\* of the i-th declared step.
C4_RequestCarriesDeclaredSteps ==
    (lastOp = "create" /\ sent # <<>>)
        => (/\ Len(sent) = 1
            /\ sent[1].method = "POST"
            /\ Len(sent[1].body) = 1
            /\ LET w == sent[1].body[1]
                   d == declared[1]
               IN  /\ w.name = d.name.v
                   /\ w.persist = DeclaredPersist(d)
                   /\ Len(w.steps) = Len(d.steps)
                   /\ \A i \in 1..Len(d.steps) :
                        /\ w.steps[i].angle = d.steps[i].angle.v
                        /\ w.steps[i].direction = d.steps[i].direction.v
                        /\ w.steps[i].distance = d.steps[i].distance.v)

\* C4 witness: a request of two different steps, sent in the declared order.
C4_Witness ==
    /\ lastOp = "create"
    /\ sent # <<>>
    /\ declared[1].steps = <<Backward100, Forward1>>
    /\ sent[1].body[1].steps[1].direction = "backward"
    /\ sent[1].body[1].steps[2].distance = 10
    /\ declared[1].persist = BoolValue(FALSE)
    /\ ~sent[1].body[1].persist

\* C5: an Update sends no HTTP request and leaves the device's plan as it was
\* (the one the last accepted Create installed); a validated Update tracks
\* exactly the newly declared values.
C5_UpdateIsLocal ==
    [][lastOp' = "update"
        => (/\ sent' = <<>>
            /\ resp' = <<>>
            /\ device' = device
            /\ (diags' = {} => tracked' = <<DeclaredValue(declared'[1])>>))]_vars

\* C5 witness: after an Update the tracked steps differ from the steps the
\* device holds.
C5_Witness ==
    /\ lastOp = "update"
    /\ diags = {}
    /\ sent = <<>>
    /\ tracked = <<DeclaredValue(declared[1])>>
    /\ device # <<>>
    /\ device[1].steps[1].direction # tracked[1].steps[1].direction.v

\* C6: a Read answered with 404 removes the tracked plan and returns no error
\* diagnostic, whatever the body.
C6_ReadNotFoundRemoves ==
    (Answered("read") /\ resp[1].status = 404) => (tracked = <<>> /\ diags = {})

\* C6 witness: a 404 whose body is no JSON.
C6_Witness ==
    /\ Answered("read")
    /\ resp[1].status = 404
    /\ ~resp[1].body.wf
    /\ tracked = <<>>
    /\ diags = {}

\* C7: a Read answered with a status other than 404 and a decodable body leaves
\* the tracked name, persist and steps as they were.
C7_ReadSuccessKeepsTracked ==
    [][(/\ lastOp' = "read"
        /\ resp' # <<>>
        /\ ~resp'[1].err
        /\ resp'[1].status # 404
        /\ DecodesAsMovementStatus(resp'[1].body))
        => (tracked' = tracked /\ diags' = {})]_vars

\* C7 witness: a Read answered 200 {"moving":false} with a plan still tracked.
C7_Witness ==
    /\ Answered("read")
    /\ resp[1].status = 200
    /\ resp[1].body = Body(TRUE, "false")
    /\ tracked # <<>>
    /\ tracked[1].persist = BoolValue(TRUE)
    /\ diags = {}

\* C8 as stated: a Delete answered with 404 or with 200 discards the tracked
\* plan and returns no error diagnostic, for every response body.
C8_DeleteNotFoundOrOkDiscards ==
    (Answered("delete") /\ resp[1].status \in {404, 200})
        => (tracked = <<>> /\ diags = {})

\* C8 amended: a Delete answered with 404 (whatever the body), or with 200 and a
\* body that decodes as a movement-status record, discards the tracked plan and
\* returns no error diagnostic.
C8_DeleteNotFoundOrDecodedOkDiscards ==
    (/\ Answered("delete")
     /\ \/ resp[1].status = 404
        \/ (resp[1].status = 200 /\ DecodesAsMovementStatus(resp[1].body)))
        => (tracked = <<>> /\ diags = {})

\* C8 witness: a Delete answered 200 {"moving":false}, after which nothing is
\* tracked.
C8_Witness ==
    /\ Answered("delete")
    /\ resp[1].status = 200
    /\ resp[1].body = Body(TRUE, "false")
    /\ tracked = <<>>
    /\ diags = {}

\* a call that got no response, a status that is neither 404 nor 2xx, or a
\* body of a non-404 response that cannot be decoded
FailedOtherThanNotFound ==
    /\ resp # <<>>
    /\ \/ resp[1].err
       \/ (resp[1].status # 404 /\ ~IsSuccess(resp[1].status))
       \/ (resp[1].status # 404 /\ ~DecodesAsMovementStatus(resp[1].body))

\* C9: a Delete that fails other than by a 404 returns an error diagnostic and
\* leaves the tracked plan in place.
C9_FailedDeleteKeepsTracked ==
    (lastOp = "delete" /\ FailedOtherThanNotFound) => (diags # {} /\ tracked # <<>>)

\* C10: a Create that fails other than by a 404 returns an error diagnostic and
\* tracks nothing.
C10_FailedCreateTracksNothing ==
    (lastOp = "create" /\ FailedOtherThanNotFound) => (diags # {} /\ tracked = <<>>)

\* C11: a Create whose POST is answered with 404 tracks nothing and returns no
\* error diagnostic, whatever the body: neither a success nor a failure.
C11_CreateNotFoundTracksNothing ==
    (Answered("create") /\ resp[1].status = 404) => (tracked = <<>> /\ diags = {})

\* C11 witness: a 404 whose body would decode as a movement-status record.
C11_Witness ==
    /\ Answered("create")
    /\ resp[1].status = 404
    /\ resp[1].body = Body(TRUE, "true")
    /\ Len(sent) = 1
    /\ tracked = <<>>
    /\ diags = {}

\* C12: a Read that fails other than by a 404 (no response, a status that is
\* neither 404 nor 2xx, an undecodable body) returns an error diagnostic and
\* leaves the tracked plan exactly as it was.
C12_FailedReadReportsAndKeeps ==
    [][(lastOp' = "read" /\ FailedOtherThanNotFound')
        => (diags' # {} /\ tracked' = tracked)]_vars

DecodeFails(op, body) ==
    CASE op = "health" -> DecodeHealthzResponse(body).err
      [] op = "ready" -> DecodeReadyzResponse(body).err
      [] op = "movement_lock" -> DecodeMovementLockResponse(body).err
      [] op = "battery" -> DecodeBatteryResponse(body).err
      [] op = "wifi_networks" -> DecodeWifiNetworks(body).err
      [] op = "device" -> DecodeDeviceResponse(body).err
      [] OTHER -> ~DecodesAsMovementStatus(body)

\* the last call hit a failure: its request could not be built from the
\* client's address, it got no response, the status was neither 404 nor 2xx, or
\* the body of a non-404 response could not be decoded
HitFailure ==
    \/ (client # <<>> /\ ~UrlParses(client[1].Config.Address) /\ sent = <<>>
            /\ "validation" \notin diags)
    \/ /\ resp # <<>>
       /\ \/ resp[1].err
          \/ (resp[1].status # 404 /\ ~IsSuccess(resp[1].status))
          \/ (resp[1].status # 404 /\ DecodeFails(lastOp, resp[1].body))

\* C14: every Create, Read, Delete or data source Read that hits a failure
\* returns at least one error diagnostic.
C14_NoFailureWithoutDiagnostic ==
    (lastOp \in {"create", "read", "delete"} \cup DataSources /\ HitFailure) => diags # {}

\* the last call was a Read of data source k that HttpClient.Do answered
ProbeAnswered(k) == lastOp = k /\ resp # <<>> /\ ~resp[1].err

\* C15: a data source Read whose GET is answered with 404 ends with the data
\* source's tracked result removed and no error diagnostic, whatever the body.
C15_ProbeNotFoundRemoves ==
    \A k \in DataSources :
        (ProbeAnswered(k) /\ resp[1].status = 404) => (results[k] = <<>> /\ diags = {})

\* C15 witness: a Read of the battery answered 404 with a body that is no JSON.
C15_Witness ==
    /\ ProbeAnswered("battery")
    /\ resp[1].status = 404
    /\ ~resp[1].body.wf
    /\ sent[1].path = "/v1/device/battery"
    /\ results["battery"] = <<>>
    /\ diags = {}

\* the last call got no response, a status that is neither 404 nor 2xx, or a
\* non-404 response whose body cannot be decoded into the record it expects
FailedRead ==
    /\ resp # <<>>
    /\ \/ resp[1].err
       \/ (resp[1].status # 404 /\ ~IsSuccess(resp[1].status))
       \/ (resp[1].status # 404 /\ DecodeFails(lastOp, resp[1].body))

\* C16: a data source Read that meets a transport failure, a status that is
\* neither 404 nor 2xx, or a decode failure returns an error diagnostic and
\* leaves the result tracked before it untouched.
C16_FailedProbeReportsAndKeeps ==
    [][\A k \in DataSources :
        (lastOp' = k /\ FailedRead') => (diags' # {} /\ results'[k] = results[k])]_vars

\* the last call was a Read of data source k answered with a 2xx status and a
\* body that decodes without error
ProbeDecoded(k) ==
    /\ ProbeAnswered(k)
    /\ IsSuccess(resp[1].status)
    /\ ~DecodeFails(k, resp[1].body)

\* the flag a one-member body holds under key: false when it has no such member
FlagOf(body, key) == body.key = key /\ body.val = "true"

\* C17: a data source Read answered with a success status and a body that
\* decodes returns no error diagnostic and stores the fields of the response:
\* battery value and unit; healthy; ready; locked; device name, uptime,
\* identifiers (long, short) and versions (api, app); for wifi a list as long as
\* the response whose i-th item holds the i-th ssid, rssi and encrypted. A
\* member the body leaves out is stored as the zero value of its type, a
\* missing identifiers or versions object as nothing.
C17_ProbeStoresDecodedFields ==
    LET body == resp[1].body
    IN  /\ ProbeDecoded("health") =>
            /\ diags = {}
            /\ results["health"] = <<[healthy |-> BoolValue(FlagOf(body, "healthy"))]>>
        /\ ProbeDecoded("ready") =>
            /\ diags = {}
            /\ results["ready"] = <<[ready |-> BoolValue(FlagOf(body, "ready"))]>>
        /\ ProbeDecoded("movement_lock") =>
            /\ diags = {}
            /\ results["movement_lock"] = <<[locked |-> BoolValue(FlagOf(body, "locked"))]>>
        /\ ProbeDecoded("battery") =>
            /\ diags = {}
            /\ Len(results["battery"]) = 1
            /\ results["battery"][1].value = Int64Value(OrZero(body.value, 0))
            /\ results["battery"][1].unit = StringValue(OrZero(body.unit, ""))
        /\ ProbeDecoded("device") =>
            /\ diags = {}
            /\ Len(results["device"]) = 1
            /\ LET d == results["device"][1]
               IN  /\ d.name = StringValue(OrZero(body.name, ""))
                   /\ d.uptime = Float64Value(OrZero(body.uptime, 0))
                   /\ Len(d.identifiers) = Len(body.identifiers)
                   /\ body.identifiers # <<>> =>
                        /\ d.identifiers[1].long = StringValue(body.identifiers[1].Long)
                        /\ d.identifiers[1].short = StringValue(body.identifiers[1].Short)
                   /\ Len(d.versions) = Len(body.versions)
                   /\ body.versions # <<>> =>
                        /\ d.versions[1].api = StringValue(body.versions[1].Api)
                        /\ d.versions[1].app = StringValue(body.versions[1].App)
        /\ ProbeDecoded("wifi_networks") =>
            /\ diags = {}
            /\ Len(results["wifi_networks"]) = 1
            /\ LET n == results["wifi_networks"][1].networks
               IN  /\ Len(n) = Len(body.items)
                   /\ \A i \in 1..Len(body.items) :
                        /\ n[i].ssid = StringValue(OrZero(body.items[i].ssid, ""))
                        /\ n[i].rssi = Float64Value(OrZero(body.items[i].rssi, 0))
                        /\ n[i].encrypted = BoolValue(OrZero(body.items[i].encrypted, FALSE))

\* C17 witness: a wifi answer of two networks, stored in the order of the
\* response.
C17_Witness ==
    /\ ProbeDecoded("wifi_networks")
    /\ resp[1].status = 200
    /\ resp[1].body.items = <<Guest, Home>>
    /\ results["wifi_networks"][1].networks[1].ssid = StringValue("guest")
    /\ results["wifi_networks"][1].networks[2].ssid = StringValue("home")
    /\ results["wifi_networks"][1].networks[2].encrypted = BoolValue(TRUE)
    /\ diags = {}

\* C18: a success response whose body is a well-formed JSON object without the
\* member the data source expects ({} where {healthy}, {ready} or {locked} is
\* expected) is reported as a decode failure and nothing from it is stored.
C18_MissingFieldIsDecodeFailure ==
    [][\A k \in {"health", "ready", "movement_lock"} :
        (/\ lastOp' = k
         /\ resp' # <<>>
         /\ ~resp'[1].err
         /\ IsSuccess(resp'[1].status)
         /\ resp'[1].body = EmptyObject)
            => ("decode" \in diags' /\ results'[k] = results[k])]_vars

\* the last call was a Create, Read or Delete of the resource or a Read of a
\* data source, and its handler ran (the configuration passed validation)
HandlerRan ==
    /\ lastOp \in {"create", "read", "delete"} \cup DataSources
    /\ "validation" \notin diags

\* C19 as stated: every Create, Read, Delete and data source Read whose
\* handler ran with a configured client sent exactly one HTTP request.
C19_ExactlyOneRoundTrip ==
    (HandlerRan /\ client # <<>>) => Len(sent) = 1

\* C19 amended: every Create, Read, Delete and data source Read sends at most
\* one HTTP request, whatever the answer (transport failure, unexpected status,
\* decode failure); it sends exactly one when the client's address makes a
\* request that can be built, and none when it does not.
C19_AtMostOneRoundTrip ==
    HandlerRan =>
        /\ Len(sent) <= 1
        /\ (client # <<>> /\ UrlParses(client[1].Config.Address)) => Len(sent) = 1
        /\ (client # <<>> /\ ~UrlParses(client[1].Config.Address)) => sent = <<>>
        /\ resp # <<>> => Len(sent) = 1

\* C19 witness: a Read of the ready data source that met a transport failure
\* and sent its one request.
C19_Witness ==
    /\ lastOp = "ready"
    /\ resp # <<>>
    /\ resp[1].err
    /\ diags = {"transport"}
    /\ Len(sent) = 1
    /\ sent[1].path = "/v1/readyz"

\* C20: while a plan stays tracked, no Read and no Update changes its name.
C20_TrackedNameImmutable ==
    [][(/\ lastOp' \in {"read", "update"}
        /\ tracked # <<>>
        /\ tracked' # <<>>)
        => tracked'[1].name = tracked[1].name]_vars

\* every declared step has a direction and a distance the schema allows
StepsAllowed(cfg) ==
    \A i \in 1..Len(cfg.steps) :
        /\ cfg.steps[i].direction.v \in {"forward", "backward"}
        /\ cfg.steps[i].distance.v >= 10
        /\ cfg.steps[i].distance.v <= 1000

\* the last Create sent a request whose steps array is as long as the declared
\* list
SentAllSteps ==
    /\ Len(sent) = 1
    /\ Len(sent[1].body) = 1
    /\ Len(sent[1].body[1].steps) = Len(declared[1].steps)

C22_PersistDefaultsToTrue ==
    (lastOp = "create" /\ "validation" \notin diags /\ "encode" \notin diags) =>
        LET want == IF declared[1].persist.null THEN TRUE ELSE declared[1].persist.v
        IN  /\ sent # <<>> => sent[1].body[1].persist = want
            /\ tracked # <<>> => tracked[1].persist = [null |-> FALSE, v |-> want]

\* C22 witness: persist was left out, true was sent and true is tracked.
C22_Witness ==
    /\ Answered("create")
    /\ declared[1].persist.null
    /\ sent[1].body[1].persist = TRUE
    /\ tracked # <<>>
    /\ tracked[1].persist = [null |-> FALSE, v |-> TRUE]

\* the answer the Read of k got, or no answer when it ended before HttpClient.Do
AnswerOf(k) == IF calls[k].resp = <<>> THEN TransportError ELSE calls[k].resp[1]

C24_FeaturesNeverPopulated ==
    ProbeDecoded("device") =>
        /\ Len(results["device"]) = 1
        /\ results["device"][1].features.null
        /\ results["device"][1].features = DeviceConfig.features
        /\ resp[1].body.name # <<>> => results["device"][1].name.v = resp[1].body.name[1]
        /\ resp[1].body.uptime # <<>> => results["device"][1].uptime.v = resp[1].body.uptime[1]
        /\ Len(results["device"][1].identifiers) = Len(resp[1].body.identifiers)
        /\ Len(results["device"][1].versions) = Len(resp[1].body.versions)

\* C24 witness: the body held a features map with the camera enabled and the
\* name "pathfinder"; the name is stored, the features are not.
C24_Witness ==
    /\ ProbeDecoded("device")
    /\ resp[1].body.features = <<{<<"camera", TRUE>>}>>
    /\ results["device"][1].name = StringValue("pathfinder")
    /\ results["device"][1].versions # <<>>
    /\ results["device"][1].features.null

\* C25 as stated: over any sequence of Create calls, when the device holds a
\* plan that a Create submitted, a plan is tracked.
C25_DevicePlanIsTracked ==
    device # <<>> => tracked # <<>>

\* C25 amended: a Create whose POST is answered with a success status and a body
\* that decodes ends with the plan the device installed in tracked state: the
\* same name, persist and steps.
C25_AcceptedAndDecodedIsTracked ==
    (/\ Answered("create")
     /\ IsSuccess(resp[1].status)
     /\ DecodesAsMovementStatus(resp[1].body))
        => (/\ tracked # <<>>
            /\ device = sent[1].body
            /\ Len(device) = 1
            /\ device[1].name = tracked[1].name.v
            /\ device[1].persist = tracked[1].persist.v
            /\ Len(device[1].steps) = Len(tracked[1].steps)
            /\ \A i \in 1..Len(tracked[1].steps) :
                /\ device[1].steps[i].angle = tracked[1].steps[i].angle.v
                /\ device[1].steps[i].direction = tracked[1].steps[i].direction.v
                /\ device[1].steps[i].distance = tracked[1].steps[i].distance.v)

\* C25 witness: a Create answered 200 {"moving":false}; the device holds the
\* plan "other" and the tracked plan is "other".
C25_Witness ==
    /\ Answered("create")
    /\ resp[1].status = 200
    /\ resp[1].body = Body(TRUE, "false")
    /\ device # <<>>
    /\ device[1].name = "other"
    /\ tracked # <<>>
    /\ tracked[1].name = StringValue("other")
    /\ Len(tracked[1].steps) = 1

\* another status than s that is not 404: 500 for 200, and 200 for the rest
OtherStatus(s) == IF s = 200 THEN 500 ELSE 200

\* C26: for Create, Read, Delete and every data source Read, the diagnostics
\* and the resulting tracked state of a call answered with a status other than
\* 404 are those of the same call, from the same state, answered with the same
\* body under another status that is not 404 (every status is compared with
\* 200, and 200 with 500, so all of them have one outcome).
C26_OutcomeIgnoresStatus ==
    [][(/\ resp' # <<>>
        /\ ~resp'[1].err
        /\ resp'[1].status # 404
        /\ lastOp' \in {"create", "read", "delete"} \cup DataSources)
        => LET r2 == [resp'[1] EXCEPT !.status = OtherStatus(resp'[1].status)]
            IN  CASE lastOp' = "create" ->
                      LET o == Create(client, ModelGet(PlanOf(declared'[1])), r2)
                      IN  o.diags = diags' /\ o.state = tracked'
                  [] lastOp' = "read" ->
                      LET o == Read(client, tracked, r2)
                      IN  o.diags = diags' /\ o.state = tracked'
                  [] lastOp' = "delete" ->
                      LET o == Delete(client, tracked, r2)
                      IN  o.diags = diags' /\ StateAfterDelete(o) = tracked'
                  [] OTHER ->
                      LET o == ReadOf(lastOp', client, r2)
                      IN  o.diags = diags' /\ StateAfterRead(results[lastOp'], o) = results'[lastOp']]_vars

\* C26 witness: a Delete answered 500 with the body {"moving":true} ended as
\* one answered 200 does: no diagnostic, nothing tracked.
C26_Witness ==
    /\ Answered("delete")
    /\ resp[1].status = 500
    /\ resp[1].body = Body(TRUE, "true")
    /\ diags = {}
    /\ tracked = <<>>


C28_NoClientReportsError ==
    (HandlerRan /\ client = <<>>) => (diags # {} /\ ~crashed /\ sent = <<>>)

====
